---- MODULE Spec2Model ----
(***************************************************************************)
(* PayCash gateway (server.js): an Express application that forwards       *)
(* invoice creation, invoice confirmation, IPN verification and disburse   *)
(* requests to the PayDunya API.  The state is the set of requests in      *)
(* flight (each one suspended at most at its single `await axios...`) and  *)
(* the hit counter of the rate limiter installed with app.use(limiter).    *)
(***************************************************************************)
EXTENDS Integers, Sequences, FiniteSets, TLC

VARIABLES reqs, hits

vars == <<reqs, hits>>

(***************************************************************************)
(* JavaScript values.  An object is the sequence of its own enumerable     *)
(* properties in insertion order, which is the order of Object.keys.       *)
(***************************************************************************)
Undef == [t |-> "undef"]
Null == [t |-> "null"]
Str(s) == [t |-> "str", s |-> s]
Num(n) == [t |-> "num", n |-> n]
Obj(f) == [t |-> "obj", f |-> f]

P(k, v) == [k |-> k, v |-> v]

IsString(v) == v.t = "str"

Nullish(v) == v.t \in {"undef", "null"}

\* ToBoolean: undefined, null, "" and 0 are falsy
Truthy(v) ==
  CASE v.t = "undef" -> FALSE
    [] v.t = "null" -> FALSE
    [] v.t = "str" -> v.s # ""
    [] v.t = "num" -> v.n # 0
    [] OTHER -> TRUE

Keys(o) == IF o.t = "obj" THEN [i \in 1..Len(o.f) |-> o.f[i].k] ELSE <<>>

Has(o, k) == o.t = "obj" /\ \E i \in 1..Len(o.f) : o.f[i].k = k

\* o.k (o is neither undefined nor null); a missing property reads undefined
Get(o, k) ==
  IF Has(o, k) THEN o.f[CHOOSE i \in 1..Len(o.f) : o.f[i].k = k].v ELSE Undef

\* a || b
Or(a, b) == IF Truthy(a) THEN a ELSE b

\* a ?? b
Coalesce(a, b) == IF Nullish(a) THEN b ELSE a

\* String.prototype.startsWith
StartsWith(s, p) == Len(s) >= Len(p) /\ SubSeq(s, 1, Len(p)) = p

\* s holds p as a substring
Includes(s, p) == \E i \in 1..(Len(s) - Len(p) + 1) : SubSeq(s, i, i + Len(p) - 1) = p

\* the object literal handed to JSON.stringify: undefined members are dropped
Json(pairs) == Obj(SelectSeq(pairs, LAMBDA p : p.v # Undef))

(***************************************************************************)
(* config                                                                  *)
(***************************************************************************)
PAYDUNYA_BASE == "https://app.paydunya.com/api/v1"

BASE_URL == "http://localhost:3000"

\* rateLimit({ windowMs: 15 * 60 * 1000, max: 200 })
limiterMax == 200

(***************************************************************************)
(* helpers                                                                 *)
(***************************************************************************)
RECURSIVE FirstHttpString(_, _)
\* for (const k of Object.keys(invoiceObj)) { ... startsWith("http") ... }
FirstHttpString(o, i) ==
  IF i > Len(Keys(o)) THEN Null
  ELSE LET v == Get(o, Keys(o)[i])
       IN IF IsString(v) /\ StartsWith(v.s, "http") THEN v
          ELSE FirstHttpString(o, i + 1)

\* extractCheckoutUrl taking whatever is under a known name, string or not
extractCheckoutUrlUntyped(invoiceObj) ==
  IF ~Truthy(invoiceObj) THEN Null
  ELSE IF IsString(invoiceObj) THEN invoiceObj
  ELSE IF Has(invoiceObj, "checkout_url") THEN Get(invoiceObj, "checkout_url")
  ELSE IF Has(invoiceObj, "payment_url") THEN Get(invoiceObj, "payment_url")
  ELSE IF Has(invoiceObj, "invoice_url") THEN Get(invoiceObj, "invoice_url")
  ELSE IF Has(invoiceObj, "url") THEN Get(invoiceObj, "url")
  ELSE FirstHttpString(invoiceObj, 1)

extractCheckoutUrl(invoiceObj) ==
  IF ~Truthy(invoiceObj) THEN Null
  ELSE IF IsString(invoiceObj) THEN invoiceObj
  ELSE IF Truthy(Get(invoiceObj, "checkout_url")) /\ IsString(Get(invoiceObj, "checkout_url"))
    THEN Get(invoiceObj, "checkout_url")
  ELSE IF Truthy(Get(invoiceObj, "payment_url")) /\ IsString(Get(invoiceObj, "payment_url"))
    THEN Get(invoiceObj, "payment_url")
  ELSE IF Truthy(Get(invoiceObj, "invoice_url")) /\ IsString(Get(invoiceObj, "invoice_url"))
    THEN Get(invoiceObj, "invoice_url")
  ELSE IF Truthy(Get(invoiceObj, "checkout_url"))
          /\ Truthy(Get(Get(invoiceObj, "checkout_url"), "payment_url"))
    THEN Get(Get(invoiceObj, "checkout_url"), "payment_url")
  ELSE IF Truthy(Get(invoiceObj, "url")) THEN Get(invoiceObj, "url")
  ELSE FirstHttpString(invoiceObj, 1)

\* template-literal interpolation `${v}` of a string or a number
ToStr(v) ==
  CASE v.t = "str" -> v.s
    [] v.t = "num" -> ToString(v.n)
    [] v.t = "undef" -> "undefined"
    [] v.t = "null" -> "null"
    [] OTHER -> "[object Object]"

\* encodeURIComponent on one character (the characters the modelled userIds use)
EncodeChar(c) ==
  CASE c = " " -> "%20"
    [] c = "<" -> "%3C"
    [] c = ">" -> "%3E"
    [] c = "&" -> "%26"
    [] c = "/" -> "%2F"
    [] OTHER -> c

RECURSIVE encodeURIComponent(_)
encodeURIComponent(s) ==
  IF s = "" THEN ""
  ELSE EncodeChar(SubSeq(s, 1, 1)) \o encodeURIComponent(SubSeq(s, 2, Len(s)))

(***************************************************************************)
(* Responses, outbound calls and upstream outcomes                         *)
(***************************************************************************)
NoResp == [code |-> 0, type |-> "", body |-> Undef]

\* res.status(code).json({...})
ResJson(code, pairs) == [code |-> code, type |-> "json", body |-> Json(pairs)]

\* res.status(code).send("...")
ResSend(code, text) == [code |-> code, type |-> "html", body |-> Str(text)]

NoCall == [method |-> "", url |-> "", payload |-> Undef, timeout |-> 0]

AxiosCall(method, url, payload, timeout) ==
  [method |-> method, url |-> url, payload |-> payload, timeout |-> timeout]

\* what the synchronous part of a handler ends with: a response, or the awaited call
Respond(r) == [resp |-> r, call |-> NoCall]

Await(c) == [resp |-> NoResp, call |-> c]

NoReply == [kind |-> "none", data |-> Undef, response |-> Undef, message |-> ""]

\* the axios promise fulfilled: pdRes.data / verify.data
Fulfilled(data) == [kind |-> "ok", data |-> data, response |-> Undef, message |-> ""]

\* the axios promise rejected: err.response (undefined when no reply arrived), err.message
Rejected(response, message) ==
  [kind |-> "err", data |-> Undef, response |-> response, message |-> message]

\* err.response?.data
ErrResponseData(err) == IF Nullish(err.response) THEN Undef ELSE Get(err.response, "data")

\* ErrMessage without the upstream body: err.message || fallback
ErrMessageLocal(err, fallback) == Or(Str(err.message), Str(fallback))

\* err.response?.data || err.message || fallback
ErrMessage(err, fallback) ==
  Or(Or(ErrResponseData(err), Str(err.message)), Str(fallback))

(***************************************************************************)
(* POST /recharge                                                          *)
(***************************************************************************)
RechargePayload(amount, userId, operator) ==
  Obj(<<P("items", [t |-> "arr", a |-> <<Obj(<<
            P("name", Str("Recharge PayCash via " \o ToStr(operator))),
            P("quantity", Num(1)),
            P("unit_price", amount),
            P("total_price", amount)>>)>>]),
        P("total_amount", amount),
        P("callback_url", Str(BASE_URL \o "/paydunya_callback?userId="
                                \o encodeURIComponent(ToStr(userId)))),
        P("ipn_url", Str(BASE_URL \o "/ipn"))>>)

RechargeStart(body) ==
  LET amount == Get(body, "amount")
      userId == Get(body, "userId")
      operator == Get(body, "operator")
  IN IF ~Truthy(amount) \/ ~Truthy(userId) \/ ~Truthy(operator)
     THEN Respond(ResJson(400, <<P("status", Str("error")),
                                 P("message", Str("Champs manquants: amount, userId, operator"))>>))
     ELSE Await(AxiosCall("POST", PAYDUNYA_BASE \o "/checkout-invoice/create",
                          RechargePayload(amount, userId, operator), 15000))

\* invoice?.token ?? invoice?.invoice_token ?? null
InvoiceToken(invoice) ==
  LET tok == IF Nullish(invoice) THEN Undef ELSE Get(invoice, "token")
      alt == IF Nullish(invoice) THEN Undef ELSE Get(invoice, "invoice_token")
  IN Coalesce(Coalesce(tok, alt), Null)

RechargeThen(invoice) ==
  ResJson(200, <<P("status", Str("success")),
                 P("token", InvoiceToken(invoice)),
                 P("payment_url", Or(extractCheckoutUrl(invoice), Null)),
                 P("raw", invoice)>>)

RechargeCatch(err) ==
  ResJson(500, <<P("status", Str("error")),
                 P("message", ErrMessage(err, "Erreur creation facture"))>>)

(***************************************************************************)
(* GET /invoice_status                                                     *)
(***************************************************************************)
ConfirmCall(token) ==
  AxiosCall("GET", PAYDUNYA_BASE \o "/checkout-invoice/confirm/" \o ToStr(token), Undef, 10000)

InvoiceStatusStart(query) ==
  LET token == Get(query, "token")
  IN IF ~Truthy(token)
     THEN Respond(ResJson(400, <<P("status", Str("error")), P("message", Str("token manquant"))>>))
     ELSE Await(ConfirmCall(token))

InvoiceStatusThen(data) ==
  ResJson(200, <<P("status", Str("success")), P("data", data)>>)

InvoiceStatusCatch(err) ==
  ResJson(500, <<P("status", Str("error")), P("message", ErrMessage(err, "Erreur verify"))>>)

(***************************************************************************)
(* POST /ipn                                                               *)
(***************************************************************************)
\* invoice.token || invoice.invoice_token || null
IpnToken(invoice) ==
  Or(Or(Get(invoice, "token"), Get(invoice, "invoice_token")), Null)

\* IpnStart without the NO_TOKEN check
IpnStartNoTokenCheck(body) ==
  LET invoice == Get(body, "invoice")
  IN IF ~Truthy(invoice) THEN Respond(ResSend(400, "NO_INVOICE"))
     ELSE Await(ConfirmCall(IpnToken(invoice)))

\* IpnStart acknowledging a notification that says "completed" without the confirm call
IpnStartTrusting(body) ==
  LET invoice == Get(body, "invoice")
  IN IF ~Truthy(invoice) THEN Respond(ResSend(400, "NO_INVOICE"))
     ELSE IF ~Truthy(IpnToken(invoice)) THEN Respond(ResSend(400, "NO_TOKEN"))
     ELSE IF Get(invoice, "status") = Str("completed")
       THEN Respond(ResJson(200, <<P("status", Str("success")), P("data", invoice)>>))
     ELSE Await(ConfirmCall(IpnToken(invoice)))

IpnStart(body) ==
  LET invoice == Get(body, "invoice")
  IN IF ~Truthy(invoice) THEN Respond(ResSend(400, "NO_INVOICE"))
     ELSE IF ~Truthy(IpnToken(invoice)) THEN Respond(ResSend(400, "NO_TOKEN"))
     ELSE Await(ConfirmCall(IpnToken(invoice)))

\* IpnThen flagging the answer by the status of the confirm body
IpnThenReflagged(data) ==
  ResJson(200, <<P("status", IF Get(data, "status") = Str("completed")
                             THEN Str("success") ELSE Str("error")),
                 P("data", data)>>)

IpnThen(data) ==
  ResJson(200, <<P("status", Str("success")), P("data", data)>>)

IpnCatch(err) == ResSend(500, "ERROR")

(***************************************************************************)
(* GET /paydunya_callback                                                  *)
(***************************************************************************)
\* HTML-escaping of one character
EscapeChar(c) ==
  CASE c = "<" -> "&lt;"
    [] c = ">" -> "&gt;"
    [] c = "&" -> "&amp;"
    [] c = "\"" -> "&quot;"
    [] OTHER -> c

RECURSIVE EscapeHtml(_)
EscapeHtml(s) ==
  IF s = "" THEN ""
  ELSE EscapeChar(SubSeq(s, 1, 1)) \o EscapeHtml(SubSeq(s, 2, Len(s)))

\* Interpolate with output encoding
InterpolateEscaped(v) == EscapeHtml(ToStr(Or(v, Str(""))))

\* `${token || ""}`
Interpolate(v) == ToStr(Or(v, Str("")))

\* the page, without its line breaks and indentation and with its accented letters
\* written plain ("Paiement recu")
CallbackPage(token, userId) ==
  "<html><head><meta charset=\"utf-8\"></head>"
    \o "<body style=\"font-family: Arial, Helvetica, sans-serif; text-align:center; padding:30px;\">"
    \o "<h2>Paiement recu</h2>"
    \o "<p>Token: <strong>" \o Interpolate(token) \o "</strong></p>"
    \o "<p>Utilisateur: <strong>" \o Interpolate(userId) \o "</strong></p>"
    \o "<p>Vous pouvez fermer cette page et retourner a l'application.</p>"
    \o "</body></html>"

PaydunyaCallbackStart(query) ==
  Respond(ResSend(200, CallbackPage(Get(query, "token"), Get(query, "userId"))))

(***************************************************************************)
(* POST /withdraw                                                          *)
(***************************************************************************)
\* WithdrawMode comparing the operator without regard to case
WithdrawModeAnyCase(operator) ==
  IF operator \in {Str("YAS"), Str("yas"), Str("Yas")} THEN "tmoney" ELSE "flooz"

WithdrawMode(operator) == IF operator = Str("YAS") THEN "tmoney" ELSE "flooz"

WithdrawPayload(amount, phone, operator) ==
  Obj(<<P("account_alias", phone),
        P("amount", amount),
        P("withdraw_mode", Str(WithdrawMode(operator)))>>)

WithdrawStart(body) ==
  LET amount == Get(body, "amount")
      phone == Get(body, "phone")
      operator == Get(body, "operator")
  IN IF ~Truthy(amount) \/ ~Truthy(phone) \/ ~Truthy(operator)
     THEN Respond(ResJson(400, <<P("status", Str("error")),
                                 P("message", Str("Champs manquants: amount, phone, operator"))>>))
     ELSE Await(AxiosCall("POST", PAYDUNYA_BASE \o "/disburse",
                          WithdrawPayload(amount, phone, operator), 15000))

\* WithdrawThen flagging the answer by the status of the disburse body
WithdrawThenReflagged(data) ==
  ResJson(200, <<P("status", IF Get(data, "status") = Str("success")
                             THEN Str("success") ELSE Str("error")),
                 P("raw", data)>>)

WithdrawThen(data) ==
  ResJson(200, <<P("status", Str("success")), P("raw", data)>>)

WithdrawCatch(err) ==
  ResJson(500, <<P("status", Str("error")), P("message", ErrMessage(err, "Erreur disburse"))>>)

(***************************************************************************)
(* GET /                                                                   *)
(***************************************************************************)
RootStart == Respond(ResSend(200, "Serveur PayCash minimal (no-storage) - en ligne"))

(***************************************************************************)
(* Requests in flight                                                      *)
(***************************************************************************)
\* the requests the server holds at once
Slots == {"a", "b"}

IdleSlot ==
  [phase |-> "idle", endpoint |-> "", input |-> Undef, admitted |-> FALSE,
   calls |-> 0, out |-> NoCall, reply |-> NoReply, resp |-> NoResp]

\* OverLimit refusing the request that reaches max
OverLimitOffByOne(totalHits) == totalHits >= limiterMax

\* express-rate-limit: the request is refused once the window's hits exceed max
OverLimit(totalHits) == totalHits > limiterMax

TooManyRequests == ResSend(429, "Too many requests, please try again later.")

\* The request as the limiter and the synchronous part of its handler leave it:
\* refused with 429, answered, or suspended at its await with the call sent.
Accepted(endpoint, input, start, totalHits) ==
  IF OverLimit(totalHits)
  THEN [IdleSlot EXCEPT !.phase = "done", !.endpoint = endpoint, !.input = input,
                        !.resp = TooManyRequests]
  ELSE IF start.call = NoCall
  THEN [IdleSlot EXCEPT !.phase = "done", !.endpoint = endpoint, !.input = input,
                        !.admitted = TRUE, !.resp = start.resp]
  ELSE [IdleSlot EXCEPT !.phase = "awaiting", !.endpoint = endpoint, !.input = input,
                        !.admitted = TRUE, !.calls = 1, !.out = start.call]

Arrive(i, endpoint, input, start) ==
  /\ reqs[i].phase = "idle"
  /\ hits' = hits + 1
  /\ reqs' = [reqs EXCEPT ![i] = Accepted(endpoint, input, start, hits + 1)]

Recharge(i, body) == Arrive(i, "recharge", body, RechargeStart(body))

InvoiceStatus(i, query) == Arrive(i, "invoice_status", query, InvoiceStatusStart(query))

Ipn(i, body) == Arrive(i, "ipn", body, IpnStart(body))

PaydunyaCallback(i, query) == Arrive(i, "paydunya_callback", query, PaydunyaCallbackStart(query))

Withdraw(i, body) == Arrive(i, "withdraw", body, WithdrawStart(body))

Root(i) == Arrive(i, "root", Obj(<<>>), RootStart)

\* the code after the await, by handler
Then(endpoint, data) ==
  CASE endpoint = "recharge" -> RechargeThen(data)
    [] endpoint = "invoice_status" -> InvoiceStatusThen(data)
    [] endpoint = "ipn" -> IpnThen(data)
    [] endpoint = "withdraw" -> WithdrawThen(data)

\* the catch block, by handler
Catch(endpoint, err) ==
  CASE endpoint = "recharge" -> RechargeCatch(err)
    [] endpoint = "invoice_status" -> InvoiceStatusCatch(err)
    [] endpoint = "ipn" -> IpnCatch(err)
    [] endpoint = "withdraw" -> WithdrawCatch(err)

\* Caught sending the call once more before giving up
CaughtRetry(r, err) ==
  IF r.calls < 2
  THEN [r EXCEPT !.reply = err, !.calls = r.calls + 1]
  ELSE [r EXCEPT !.phase = "done", !.reply = err, !.resp = Catch(r.endpoint, err)]

\* the request once its catch block has run: answered, nothing sent again
Caught(r, err) ==
  [r EXCEPT !.phase = "done", !.reply = err, !.resp = Catch(r.endpoint, err)]

\* the request once the code after its await has run
Answered(r, data) ==
  [r EXCEPT !.phase = "done", !.reply = Fulfilled(data), !.resp = Then(r.endpoint, data)]

\* the awaited call returns a 2xx reply with body `data`
Resolve(i, data) ==
  /\ reqs[i].phase = "awaiting"
  /\ reqs' = [reqs EXCEPT ![i] = Answered(@, data)]
  /\ UNCHANGED hits

\* the awaited call fails: timeout, network error or non-2xx reply
Reject(i, err) ==
  /\ reqs[i].phase = "awaiting"
  /\ reqs' = [reqs EXCEPT ![i] = Caught(@, err)]
  /\ UNCHANGED hits

\* the response has been written and the request is gone
Finish(i) ==
  /\ reqs[i].phase = "done"
  /\ reqs' = [reqs EXCEPT ![i] = IdleSlot]
  /\ UNCHANGED hits

\* windowMs elapses: the limiter's store forgets the hits
WindowReset ==
  /\ hits > 0
  /\ hits' = 0
  /\ UNCHANGED reqs

Init ==
  /\ reqs = [i \in Slots |-> IdleSlot]
  /\ hits = 0

(***************************************************************************)
(* Inputs: request bodies and queries, upstream replies                    *)
(***************************************************************************)
\* requests one client sends within a window of the limiter in Spec
MaxHits == 3

\* requests counted past the limiter's max in SpecLimiter
MaxOver == 2

\* a parsed JSON body or query string: the members that are present
ObjOf(pairs) == Obj(SelectSeq(pairs, LAMBDA p : p.v # Undef))

Amounts == {Undef, Num(0), Num(500)}

UserIds == {Undef, Str("u 1")}

Operators == {Undef, Str("YAS"), Str("MOOV"), Str("yas")}

Phones == {Undef, Str("90112233")}

RechargeBodies ==
  {ObjOf(<<P("amount", a), P("userId", u), P("operator", o)>>) :
     a \in Amounts, u \in UserIds, o \in Operators}

WithdrawBodies ==
  {ObjOf(<<P("amount", a), P("phone", ph), P("operator", o)>>) :
     a \in Amounts, ph \in Phones, o \in Operators}

InvoiceStatusQueries == {ObjOf(<<P("token", t)>>) : t \in {Undef, Str(""), Str("tok1")}}

IpnInvoices ==
  {Undef, Str("tok1")} \cup
  {ObjOf(<<P("token", t), P("invoice_token", it), P("status", st)>>) :
     t \in {Undef, Str("tok1")},
     it \in {Undef, Str("tok1"), Str("tok2")},
     st \in {Undef, Str("completed"), Str("pending")}}

IpnBodies == {ObjOf(<<P("invoice", inv)>>) : inv \in IpnInvoices}

CallbackQueries ==
  {ObjOf(<<P("token", t), P("userId", u)>>) :
     t \in {Undef, Str("tok1"), Str("<b>x</b>")},
     u \in {Undef, Str("u 1"), Str("<i>&\"")}}

\* bodies of checkout-invoice/confirm
ConfirmData ==
  { Obj(<<P("response_code", Str("00")), P("status", Str("completed"))>>),
    Obj(<<P("response_code", Str("00")), P("status", Str("pending"))>>),
    Obj(<<P("response_code", Str("00")), P("status", Str("cancelled"))>>),
    Obj(<<P("response_code", Str("1001")), P("response_text", Str("Invoice not found"))>>) }

\* bodies of checkout-invoice/create
CreateData ==
  { Obj(<<P("response_code", Str("00")),
          P("response_text", Str("https://app.paydunya.com/checkout/invoice/tokA")),
          P("description", Str("Checkout Invoice Created")),
          P("token", Str("tokA"))>>),
    Obj(<<P("response_code", Str("1001")),
          P("response_text", Str("Invalid Masterkey Specified"))>>),
    Obj(<<P("status", Str("error")), P("invoice_token", Str("tokB")),
          P("checkout_url", Obj(<<P("payment_url", Str("https://pay/b"))>>))>>),
    Str("") }

\* bodies of disburse
DisburseData ==
  { Obj(<<P("response_code", Str("00")), P("status", Str("success"))>>),
    Obj(<<P("response_code", Str("4002")), P("status", Str("failed"))>>),
    Str("") }

DataFor(endpoint) ==
  CASE endpoint = "recharge" -> CreateData
    [] endpoint = "withdraw" -> DisburseData
    [] OTHER -> ConfirmData

HttpError(status, data) ==
  Rejected(Obj(<<P("status", Num(status)), P("data", data)>>),
           "Request failed with status code " \o ToString(status))

Timeout(ms) == Rejected(Undef, "timeout of " \o ToString(ms) \o "ms exceeded")

\* the ways the awaited call fails
Errors(ms) ==
  { Timeout(ms),
    HttpError(500, Obj(<<P("message", Str("upstream down"))>>)),
    HttpError(502, Str("Bad Gateway")),
    HttpError(503, Str("")),
    HttpError(400, Obj(<<P("response_code", Str("1001"))>>)) }

(***************************************************************************)
(* Spec: one request at a time, every route, every input                   *)
(***************************************************************************)
Next ==
  \/ \E b \in RechargeBodies : hits < MaxHits /\ Recharge("a", b)
  \/ \E q \in InvoiceStatusQueries : hits < MaxHits /\ InvoiceStatus("a", q)
  \/ \E b \in IpnBodies : hits < MaxHits /\ Ipn("a", b)
  \/ \E q \in CallbackQueries : hits < MaxHits /\ PaydunyaCallback("a", q)
  \/ \E b \in WithdrawBodies : hits < MaxHits /\ Withdraw("a", b)
  \/ hits < MaxHits /\ Root("a")
  \/ \E d \in DataFor(reqs["a"].endpoint) : Resolve("a", d)
  \/ \E e \in Errors(reqs["a"].out.timeout) : Reject("a", e)
  \/ Finish("a")
  \/ WindowReset

Spec == Init /\ [][Next]_vars

(***************************************************************************)
(* SpecExtract: /recharge over the shapes of the invoice-create body       *)
(***************************************************************************)
ExtractBody == ObjOf(<<P("amount", Num(500)), P("userId", Str("u 1")), P("operator", Str("YAS"))>>)

\* bodies of checkout-invoice/create, the fields in the order they arrive
InvoiceObjs ==
  {ObjOf(<<P("response_text", rt), P("checkout_url", cu), P("payment_url", pu),
           P("invoice_url", iu), P("url", u), P("receipt_url", ru)>>) :
     rt \in {Undef, Str("https://pay/r"), Str("Invalid Masterkey Specified")},
     cu \in {Undef, Str(""), Str("https://pay/c"), Obj(<<>>),
             Obj(<<P("payment_url", Str("https://pay/n"))>>)},
     pu \in {Undef, Str("https://pay/p"), Num(7)},
     iu \in {Undef, Str("https://pay/i")},
     u \in {Undef, Str("https://pay/u"), Num(0)},
     ru \in {Undef, Str("http://pay/x")}}

NextExtract ==
  \/ hits < MaxHits /\ Recharge("a", ExtractBody)
  \/ \E d \in InvoiceObjs : Resolve("a", d)
  \/ Finish("a")
  \/ WindowReset

SpecExtract == Init /\ [][NextExtract]_vars

(***************************************************************************)
(* SpecIpn: two notifications in flight at once                            *)
(***************************************************************************)
NextIpn ==
  \/ \E i \in Slots : \E b \in IpnBodies : hits < MaxHits /\ Ipn(i, b)
  \/ \E i \in Slots : \E d \in ConfirmData : Resolve(i, d)
  \/ \E i \in Slots : \E e \in Errors(10000) : Reject(i, e)
  \/ \E i \in Slots : Finish(i)
  \/ WindowReset

SpecIpn == Init /\ [][NextIpn]_vars

(***************************************************************************)
(* SpecLimiter: one client sending requests past the limiter's max         *)
(***************************************************************************)
NextLimiter ==
  \/ \E i \in Slots : \E q \in InvoiceStatusQueries :
       hits < limiterMax + MaxOver /\ InvoiceStatus(i, q)
  \/ \E i \in Slots : hits < limiterMax + MaxOver /\ Root(i)
  \/ \E i \in Slots : \E d \in ConfirmData : Resolve(i, d)
  \/ \E i \in Slots : \E e \in Errors(10000) : Reject(i, e)
  \/ \E i \in Slots : Finish(i)
  \/ WindowReset

SpecLimiter == Init /\ [][NextLimiter]_vars

(***************************************************************************)
(* Properties                                                              *)
(***************************************************************************)
\* the requests the handlers have been run for
Handled == {i \in Slots : reqs[i].phase # "idle" /\ reqs[i].admitted}

Answer(i) == reqs[i].resp

\* a required field of the body or query is absent, invoice.token for /ipn
MissingField(r) ==
  CASE r.endpoint = "recharge" ->
         ~Has(r.input, "amount") \/ ~Has(r.input, "userId") \/ ~Has(r.input, "operator")
    [] r.endpoint = "invoice_status" -> ~Has(r.input, "token")
    [] r.endpoint = "ipn" -> ~Has(Get(r.input, "invoice"), "token")
    [] r.endpoint = "withdraw" ->
         ~Has(r.input, "amount") \/ ~Has(r.input, "phone") \/ ~Has(r.input, "operator")
    [] OTHER -> FALSE

\* the same, a token of /ipn being invoice.token or invoice.invoice_token
MissingFieldOrAlias(r) ==
  IF r.endpoint = "ipn"
  THEN ~Has(Get(r.input, "invoice"), "token") /\ ~Has(Get(r.input, "invoice"), "invoice_token")
  ELSE MissingField(r)

Refused400(r) == r.phase = "done" /\ r.resp.code = 400 /\ r.calls = 0 /\ r.out = NoCall

\* C1 as claimed: a handled request of /recharge, /invoice_status, /ipn or /withdraw
\* that lacks a required field (invoice.token for /ipn) is answered 400 and no call
\* to the upstream API is issued for it.
C1_MissingFieldRefused ==
  \A i \in Handled : MissingField(reqs[i]) => Refused400(reqs[i])

\* C1 amended: the same with the token of /ipn read from invoice.token or, when that
\* is absent, from invoice.invoice_token: the request is refused with 400 when the
\* invoice carries neither.
C1_MissingFieldOrAliasRefused ==
  \A i \in Handled : MissingFieldOrAlias(reqs[i]) => Refused400(reqs[i])

C1_Witness ==
  \E i \in Handled :
    /\ reqs[i].endpoint = "ipn"
    /\ Has(Get(reqs[i].input, "invoice"), "status")
    /\ MissingFieldOrAlias(reqs[i])
    /\ Answer(i) = ResSend(400, "NO_TOKEN")

\* the /ipn requests whose confirm call returned a body
IpnVerified == {i \in Handled : reqs[i].endpoint = "ipn" /\ reqs[i].reply.kind = "ok"}

Completed(data) == Get(data, "status") = Str("completed")

\* C2 as claimed: /ipn answers 200 with a success indicator when the confirm body has
\* status "completed", and 200 with a result that is not a success for any other status.
C2_IpnReportsOutcome ==
  \A i \in IpnVerified :
    /\ Answer(i).code = 200
    /\ Get(Answer(i).body, "status") = Str("success") <=> Completed(reqs[i].reply.data)

\* C2 amended: whatever the status of the confirm body, /ipn answers 200 with status
\* "success" and the confirm body unchanged in data; a status other than "completed"
\* shows only as data.status.
C2_IpnAcknowledges ==
  \A i \in IpnVerified :
    /\ Answer(i).code = 200
    /\ Get(Answer(i).body, "status") = Str("success")
    /\ Get(Answer(i).body, "data") = reqs[i].reply.data

C2_Witness ==
  \E i \in IpnVerified :
    /\ Get(reqs[i].reply.data, "status") = Str("pending")
    /\ Get(Answer(i).body, "status") = Str("success")
    /\ Get(Get(Answer(i).body, "data"), "status") = Str("pending")

\* the call failed by timeout (no reply) or with an upstream 5xx
TimeoutOr5xx(reply) ==
  /\ reply.kind = "err"
  /\ \/ reply.response = Undef
     \/ Get(reply.response, "status").n >= 500

\* the body the upstream sent with its error, if it sent one
ErrorBody(reply) == IF reply.response = Undef THEN Undef ELSE Get(reply.response, "data")

SuppliedBody(reply) == ErrorBody(reply) \notin {Undef, Null, Str("")}

CarriesDetail(resp, detail) == resp.body = detail \/ Get(resp.body, "message") = detail

\* the requests whose upstream call failed by timeout or 5xx
UpstreamFailed == {i \in Handled : TimeoutOr5xx(reqs[i].reply)}

\* C3 as claimed: on every endpoint a timeout or upstream 5xx is answered 500, with the
\* upstream error body in the response body whenever the upstream supplied one.
C3_FailureCarriesDetail ==
  \A i \in UpstreamFailed :
    /\ Answer(i).code = 500
    /\ SuppliedBody(reqs[i].reply) => CarriesDetail(Answer(i), ErrorBody(reqs[i].reply))

\* C3 amended: a timeout or upstream 5xx is answered 500 on every endpoint; on
\* /recharge, /invoice_status and /withdraw the message of the response is the upstream
\* error body whenever one was supplied; on /ipn the body is the fixed text ERROR.
C3_FailureCarriesDetailButIpn ==
  \A i \in UpstreamFailed :
    /\ Answer(i).code = 500
    /\ IF reqs[i].endpoint = "ipn"
       THEN Answer(i).body = Str("ERROR")
       ELSE SuppliedBody(reqs[i].reply)
              => Get(Answer(i).body, "message") = ErrorBody(reqs[i].reply)

C3_Witness ==
  \E i \in UpstreamFailed :
    /\ reqs[i].endpoint = "withdraw"
    /\ SuppliedBody(reqs[i].reply)
    /\ Answer(i).code = 500
    /\ Get(Answer(i).body, "message") = Obj(<<P("message", Str("upstream down"))>>)

\* C6: a request causes at most one call to the upstream API; once the call has failed
\* the request is answered 500 and nothing is sent again.
C6_AtMostOneCall ==
  \A i \in Slots :
    /\ reqs[i].calls <= 1
    /\ reqs[i].reply.kind = "err"
         => reqs[i].phase = "done" /\ Answer(i).code = 500 /\ reqs[i].calls = 1

C6_Witness ==
  \E i \in Handled :
    /\ reqs[i].reply = Timeout(15000)
    /\ reqs[i].phase = "done"
    /\ reqs[i].calls = 1
    /\ Answer(i).code = 500

\* the /withdraw requests whose disburse call has been sent
Disbursing == {i \in Handled : reqs[i].endpoint = "withdraw" /\ reqs[i].out # NoCall}

\* C7: the disburse payload has withdraw_mode "tmoney" exactly when operator is "YAS"
\* and "flooz" for any other operator, account_alias the phone and amount the amount
\* of the request.
C7_WithdrawPayload ==
  \A i \in Disbursing :
    LET sent == reqs[i].out.payload
        body == reqs[i].input
    IN /\ Get(sent, "withdraw_mode") \in {Str("tmoney"), Str("flooz")}
       /\ Get(sent, "withdraw_mode") = Str("tmoney") <=> Get(body, "operator") = Str("YAS")
       /\ Get(sent, "account_alias") = Get(body, "phone")
       /\ Get(sent, "amount") = Get(body, "amount")

C7_Witness ==
  \E i \in Disbursing :
    /\ Get(reqs[i].input, "operator") = Str("yas")
    /\ Get(reqs[i].out.payload, "withdraw_mode") = Str("flooz")
    /\ Get(reqs[i].out.payload, "account_alias") = Str("90112233")

\* the value of a query parameter as text, empty when absent
QueryText(query, k) == IF Has(query, k) THEN Get(query, k).s ELSE ""

\* C9: the page of /paydunya_callback holds the token and userId of the query exactly
\* as given, unescaped, and the empty string for an absent one; no call is made.
C9_CallbackEchoes ==
  \A i \in Handled :
    reqs[i].endpoint = "paydunya_callback" =>
      /\ reqs[i].phase = "done" /\ reqs[i].calls = 0 /\ reqs[i].out = NoCall
      /\ Includes(Answer(i).body.s,
                  "Token: <strong>" \o QueryText(reqs[i].input, "token") \o "</strong>")
      /\ Includes(Answer(i).body.s,
                  "Utilisateur: <strong>" \o QueryText(reqs[i].input, "userId") \o "</strong>")

C9_Witness ==
  \E i \in Handled :
    /\ reqs[i].endpoint = "paydunya_callback"
    /\ Get(reqs[i].input, "token") = Str("<b>x</b>")
    /\ ~Has(reqs[i].input, "userId")
    /\ Includes(Answer(i).body.s, "<strong><b>x</b></strong>")
    /\ Includes(Answer(i).body.s, "Utilisateur: <strong></strong>")

\* the /recharge and /withdraw requests whose call returned without error
Forwarded ==
  {i \in Handled : reqs[i].endpoint \in {"recharge", "withdraw"} /\ reqs[i].reply.kind = "ok"}

NoHttpField(data) ==
  \A j \in 1..Len(Keys(data)) :
    LET v == Get(data, Keys(data)[j])
    IN ~(IsString(v) /\ StartsWith(v.s, "http")) /\ v.t # "obj"

Created ==
  {i \in Handled : reqs[i].endpoint = "recharge" /\ reqs[i].reply.kind = "ok"
                     /\ reqs[i].reply.data.t = "obj"}

PaymentUrl(i) == Get(Answer(i).body, "payment_url")

\* what the body holds under the known names
NamedValues(o) ==
  {Get(o, k) : k \in {k \in {"checkout_url", "payment_url", "invoice_url", "url"} : Has(o, k)}}
    \cup (IF Has(Get(o, "checkout_url"), "payment_url")
          THEN {Get(Get(o, "checkout_url"), "payment_url")} ELSE {})

\* the other fields that are strings starting with "http", in the order of the body
OtherHttpFields(o) ==
  SelectSeq([j \in 1..Len(o.f) |-> o.f[j]],
            LAMBDA p : /\ p.k \notin {"checkout_url", "payment_url", "invoice_url", "url"}
                       /\ IsString(p.v) /\ StartsWith(p.v.s, "http"))

FieldValues(ps) == {ps[j].v : j \in 1..Len(ps)}

\* C8 as claimed: the extractor returns the value found under checkout_url, payment_url,
\* invoice_url, url or checkout_url.payment_url when the body contains one of them; with
\* none of them, some other string field starting with "http"; with none, null.
C8_ExtractsNamedField ==
  \A i \in Created :
    LET o == reqs[i].reply.data
    IN IF NamedValues(o) # {} THEN PaymentUrl(i) \in NamedValues(o)
       ELSE IF OtherHttpFields(o) # <<>> THEN PaymentUrl(i) \in FieldValues(OtherHttpFields(o))
       ELSE PaymentUrl(i) = Null

NonEmptyString(v) == IsString(v) /\ v.s # ""

\* the values under the known names that the extractor takes, in its order
UsableNamed(o) ==
  SelectSeq(<<[v |-> Get(o, "checkout_url"), ok |-> NonEmptyString(Get(o, "checkout_url"))],
              [v |-> Get(o, "payment_url"), ok |-> NonEmptyString(Get(o, "payment_url"))],
              [v |-> Get(o, "invoice_url"), ok |-> NonEmptyString(Get(o, "invoice_url"))],
              [v |-> Get(Get(o, "checkout_url"), "payment_url"),
               ok |-> Get(Get(o, "checkout_url"), "payment_url") \notin {Undef, Null, Str(""), Num(0)}],
              [v |-> Get(o, "url"), ok |-> Get(o, "url") \notin {Undef, Null, Str(""), Num(0)}]>>,
            LAMBDA c : c.ok)

\* C8 amended: the extractor returns the first of checkout_url, payment_url, invoice_url
\* (each only when a non-empty string), checkout_url.payment_url and url (each only when
\* truthy) that the body holds; when it holds none in that form, the first string field
\* starting with "http"; when there is none, null.
C8_ExtractsUsableField ==
  \A i \in Created :
    LET o == reqs[i].reply.data
    IN IF UsableNamed(o) # <<>> THEN PaymentUrl(i) = UsableNamed(o)[1].v
       ELSE IF OtherHttpFields(o) # <<>> THEN PaymentUrl(i) = OtherHttpFields(o)[1].v
       ELSE PaymentUrl(i) = Null

C8_Witness ==
  \E i \in Created :
    LET o == reqs[i].reply.data
    IN /\ Get(o, "checkout_url") = Obj(<<>>)
       /\ Get(o, "payment_url") = Num(7)
       /\ UsableNamed(o) = <<>>
       /\ Len(OtherHttpFields(o)) = 2
       /\ PaymentUrl(i) = Str("https://pay/r")

\* the /ipn requests that have been answered
IpnAnswered == {i \in Handled : reqs[i].endpoint = "ipn" /\ reqs[i].phase = "done"}

\* the token a notification carries
NotifiedToken(r) ==
  LET invoice == Get(r.input, "invoice")
  IN IF Has(invoice, "token") THEN Get(invoice, "token")
     ELSE IF Has(invoice, "invoice_token") THEN Get(invoice, "invoice_token")
     ELSE Null

\* C4: the status code and success indicator of an /ipn answer are decided by the token
\* and the result of the confirm call alone: two notifications with the same token and
\* the same confirm result are answered alike whatever else they carry, and a 200 is
\* sent only after a confirm call for that token returned.
C4_IpnTrustsOnlyConfirm ==
  /\ \A i, j \in IpnAnswered :
       (NotifiedToken(reqs[i]) = NotifiedToken(reqs[j]) /\ reqs[i].reply = reqs[j].reply)
         => /\ Answer(i).code = Answer(j).code
            /\ Get(Answer(i).body, "status") = Get(Answer(j).body, "status")
            /\ Get(Answer(i).body, "data") = Get(Answer(j).body, "data")
  /\ \A i \in IpnAnswered :
       Answer(i).code = 200 =>
         /\ reqs[i].calls = 1
         /\ reqs[i].reply.kind = "ok"
         /\ reqs[i].out.url = PAYDUNYA_BASE \o "/checkout-invoice/confirm/" \o NotifiedToken(reqs[i]).s

C4_Witness ==
  \E i, j \in IpnAnswered :
    /\ Get(Get(reqs[i].input, "invoice"), "token") = Str("tok1")
    /\ Get(Get(reqs[i].input, "invoice"), "status") = Str("completed")
    /\ Get(Get(reqs[j].input, "invoice"), "invoice_token") = Str("tok1")
    /\ Get(Get(reqs[j].input, "invoice"), "status") = Str("pending")
    /\ ~Has(Get(reqs[j].input, "invoice"), "token")
    /\ reqs[i].reply = reqs[j].reply
    /\ Get(reqs[i].reply.data, "status") = Str("cancelled")
    /\ Answer(i) = Answer(j)

\* the requests that have been answered
Closed == {i \in Slots : reqs[i].phase = "done"}

SameRequest(i, j) ==
  /\ reqs[i].endpoint = reqs[j].endpoint
  /\ reqs[i].input = reqs[j].input
  /\ reqs[i].reply = reqs[j].reply

\* C5 as claimed: the answer to a request depends on the request and the upstream reply
\* to it alone, whatever requests came before or beside it.
C5_NoSharedState ==
  \A i, j \in Closed : SameRequest(i, j) => Answer(i) = Answer(j)

AdmittedPairsAgree ==
  /\ \A i, j \in Closed :
       (SameRequest(i, j) /\ reqs[i].admitted /\ reqs[j].admitted) => Answer(i) = Answer(j)
  /\ \A i \in Closed : ~reqs[i].admitted => Answer(i).code = 429

\* a request is let through exactly when it is among the first limiterMax of the window
AdmissionRule ==
  \A i \in Slots :
    (reqs[i].phase = "idle" /\ reqs'[i].phase # "idle")
      => (reqs'[i].admitted <=> hits' <= 200)

\* C5 amended: status code and body of the answer to a request the rate limiter lets
\* through depend on the request and the upstream reply to it alone; the limiter's hit
\* count is shared: a request past the 200th of its client in the current window is
\* answered 429 whatever it asks.
C5_NoSharedStateButLimiter == []AdmittedPairsAgree /\ [][AdmissionRule]_vars

C5_Witness ==
  \E i, j \in Closed :
    /\ i # j
    /\ hits = limiterMax
    /\ SameRequest(i, j)
    /\ reqs[i].admitted /\ reqs[j].admitted
    /\ reqs[i].reply.kind = "ok"
    /\ Answer(i) = Answer(j)
    /\ Answer(i).code = 200

====
